---- MODULE Spec2Model ----
(***************************************************************************)
(* Model of the audio playback engine of Yesterday-in-Review: the          *)
(* AudioPlayer component (components/AudioPlayer, src/unnamed/part_002     *)
(* lines 146-377) and the App state that drives it (src/App.tsx).          *)
(*                                                                         *)
(* Time is counted in tenths of a second (the step of the range input,     *)
(* part_002:333), so the 0.1 s end-of-clip epsilon is one unit.            *)
(* null is modelled as 0 for buffers, articles and node references.        *)
(*                                                                         *)
(* One action is one browser task: an event handler or callback, the       *)
(* React render it causes and the effects of that render (cleanup of the   *)
(* previous effect first, then the effect bodies in declaration order).    *)
(* State updates are batched per task (React 18 automatic batching).       *)
(***************************************************************************)
EXTENDS Integers, FiniteSets, Sequences, TLC

\* ---------------------------------------------------------------- bounds
\* the last reading of context.currentTime
MaxClock == 3
\* source nodes that can run at once
MaxNodes == 3
\* ended events of stopped nodes that can be queued at once
MaxQueued == 2
\* generateNewsAudio calls that can be in flight at once
MaxPendingAudio == 1
\* articles whose audio can be requested
NumArticles == 1
\* how far beyond the ends of the track the pointer can be dragged
SeekOvershoot == 1
\* briefing dates that can be viewed, the last one being yesterday
NumDates == 2
\* accounts that can log in, besides the guest
NumUsers == 1
\* fetchDailyBriefing calls that can be in flight at once
MaxFetches == 2

\* ------------------------------------------------------ program constants
\* buffer.duration - 0.1 (part_002:208, :279), in tenths of a second
EndEpsilon == 1
\* max={duration || 100} (part_002:332): 100 s in tenths of a second
DefaultSliderMax == 1000

Articles == 1..NumArticles
NodeIds == 1..MaxNodes

\* buffer.duration of the clip generated for article a (tenths of a second);
\* every generated clip is 0.3 s long
Duration(a) == IF a = 0 THEN 0 ELSE 3

Min(a, b) == IF a <= b THEN a ELSE b
Max(a, b) == IF a >= b THEN a ELSE b

VARIABLES
  audioContext,    \* App: AudioContext created (TRUE) or null (FALSE)
  audioBuffer,     \* App: 0 (null) or the article whose clip is loaded
  isAudioPlaying,  \* App
  isAudioLoading,  \* App
  playingArticle,  \* App: 0 (null) or article id
  pendingAudio,    \* per article, the handlePlayAudio calls awaiting
                   \* generateNewsAudio
  currentTime,     \* AudioPlayer state
  duration,        \* AudioPlayer state
  isDragging,      \* AudioPlayer state
  sourceRef,       \* AudioPlayer ref: 0 (null) or a node id
  startTimeRef,    \* AudioPlayer ref
  pausedAtRef,     \* AudioPlayer ref
  animationRef,    \* the pending requestAnimationFrame callback, if any
  hasCleanup,      \* the last run of the playback effect returned its cleanup
  nodes,           \* the AudioBufferSourceNodes that are running
  endedQueue,      \* ended events of stopped nodes, not yet dispatched
  now,             \* context.currentTime
  mounted,         \* the React root still renders App
  viewDate,        \* App: the date whose briefing is shown
  currentUser,     \* App: 0 (null, the guest) or a user id
  articles,        \* App: the list shown, as the set of <<user, date>> its
                   \* articles were fetched for
  loading,         \* App
  loadingMore,     \* App
  briefings,       \* localStorage briefings: per key <<user, date>> the
                   \* <<user, date>> its list was fetched for, {} if none
  fetches          \* fetchDailyBriefing calls in flight

vars == <<audioContext, audioBuffer, isAudioPlaying, isAudioLoading,
          playingArticle, pendingAudio, currentTime, duration, isDragging,
          sourceRef, startTimeRef, pausedAtRef, animationRef, hasCleanup,
          nodes, endedQueue, now, mounted, viewDate, currentUser, articles,
          loading, loadingMore, briefings, fetches>>

audioVars == <<audioContext, audioBuffer, isAudioPlaying, isAudioLoading,
               playingArticle, pendingAudio, currentTime, duration,
               isDragging, sourceRef, startTimeRef, pausedAtRef,
               animationRef, hasCleanup, nodes, endedQueue, now, mounted>>

briefingVars == <<viewDate, currentUser, articles, loading, loadingMore,
                  briefings, fetches>>

\* ------------------------------------------------------------ node records
\* nodes holds the AudioBufferSourceNodes that are running: started, not
\* stopped, ended event not fired.  offset/startedAt are the arguments of
\* start(0, offset) and the clock at that call; dur and sawPlaying are what
\* the node's onended closure captured (buffer.duration and the
\* isAudioPlaying inside its onTogglePlay).
FreeNode == [live |-> FALSE, offset |-> 0, startedAt |-> 0, dur |-> 0,
             sawPlaying |-> FALSE]

\* A node that no longer runs cannot be told from any other such node, so
\* sourceRef is 0 (null), DeadRef (a node that was stopped or has ended) or
\* the id of a running node.
DeadRef == 0 - 1

\* endedQueue counts the ended events queued by stop() and not yet
\* dispatched, by the stop() call that queued them ("pause" part_002:230,
\* "cleanup" :244, "seek" :267) and by the buffer.duration their onended
\* closure captured.
StopKinds == {"pause", "cleanup", "seek"}
Durations == {Duration(a) : a \in Articles}
EmptyQueue == [k \in StopKinds \X Durations |-> 0]

NoFrame == [pending |-> FALSE, drag |-> FALSE, dur |-> 0]

\* The whole program state as one record, so that handlers and effects can
\* be written as functions from state to state.
St ==
  [audioContext |-> audioContext, audioBuffer |-> audioBuffer,
   isAudioPlaying |-> isAudioPlaying, isAudioLoading |-> isAudioLoading,
   playingArticle |-> playingArticle, pendingAudio |-> pendingAudio,
   currentTime |-> currentTime, duration |-> duration,
   isDragging |-> isDragging, sourceRef |-> sourceRef,
   startTimeRef |-> startTimeRef, pausedAtRef |-> pausedAtRef,
   animationRef |-> animationRef, hasCleanup |-> hasCleanup,
   nodes |-> nodes, endedQueue |-> endedQueue]

\* sourceRef.current.stop(): a running node stops and its ended event is
\* queued; on any other node the call has no effect (an exception, if any,
\* is swallowed by the surrounding try/catch).
StopSource(r, by) ==
  IF r.sourceRef \in NodeIds
    THEN [r EXCEPT !.nodes[r.sourceRef] = FreeNode,
                   !.endedQueue[<<by, r.nodes[r.sourceRef].dur>>] = @ + 1,
                   !.sourceRef = DeadRef]
    ELSE r

FreeIds(r) == {i \in NodeIds : ~r.nodes[i].live}

NewId(r) == CHOOSE i \in FreeIds(r) : \A j \in FreeIds(r) : i <= j

\* StartNode with source.start(0), the offset argument left out
StartNodeNoOffset(r, id, offset) ==
  [r.nodes EXCEPT ![id] = [live |-> TRUE, offset |-> 0,
                           startedAt |-> now,
                           dur |-> Duration(r.audioBuffer),
                           sawPlaying |-> r.isAudioPlaying]]

\* context.createBufferSource(); source.start(0, offset); source.onended = ...
StartNode(r, id, offset) ==
  [r.nodes EXCEPT ![id] = [live |-> TRUE, offset |-> offset,
                           startedAt |-> now,
                           dur |-> Duration(r.audioBuffer),
                           sawPlaying |-> r.isAudioPlaying]]

\* ----------------------------------------------------- AudioPlayer effects
\* DurationEffect without pausedAtRef.current = 0 (part_002:184)
DurationEffectNoReset(r) ==
  IF r.audioBuffer # 0
    THEN [r EXCEPT !.duration = Duration(r.audioBuffer)]
    ELSE [r EXCEPT !.duration = 0, !.currentTime = 0]

\* useEffect(..., [buffer])
DurationEffect(r) ==
  IF r.audioBuffer # 0
    THEN [r EXCEPT !.duration = Duration(r.audioBuffer)]
    ELSE [r EXCEPT !.duration = 0, !.currentTime = 0, !.pausedAtRef = 0]

\* PlaybackCleanup without cancelAnimationFrame (part_002:246)
PlaybackCleanupNoCancel(r) ==
  IF r.hasCleanup
    THEN [StopSource(r, "cleanup") EXCEPT !.hasCleanup = FALSE]
    ELSE r

\* PlaybackCleanup without the sourceRef.current.stop() of part_002:243-245
PlaybackCleanupNoStop(r) ==
  IF r.hasCleanup
    THEN [r EXCEPT !.animationRef = NoFrame, !.hasCleanup = FALSE]
    ELSE r

\* the function returned by the playback effect
PlaybackCleanup(r) ==
  IF r.hasCleanup
    THEN [StopSource(r, "cleanup") EXCEPT !.animationRef = NoFrame,
                                          !.hasCleanup = FALSE]
    ELSE r

\* PlayBranch with startTimeRef.current = context.currentTime, the offset
\* not subtracted (part_002:204)
PlayBranchNoOffset(r) ==
  LET id == NewId(r)
      offset == r.pausedAtRef
  IN [r EXCEPT !.nodes = StartNode(r, id, offset),
               !.sourceRef = id,
               !.startTimeRef = now,
               !.animationRef = [pending |-> TRUE, drag |-> r.isDragging,
                                 dur |-> Duration(r.audioBuffer)],
               !.hasCleanup = TRUE]

\* if (isPlaying) { ... }
PlayBranch(r) ==
  LET id == NewId(r)
      offset == r.pausedAtRef
  IN [r EXCEPT !.nodes = StartNode(r, id, offset),
               !.sourceRef = id,
               !.startTimeRef = now - offset,
               !.animationRef = [pending |-> TRUE, drag |-> r.isDragging,
                                 dur |-> Duration(r.audioBuffer)],
               !.hasCleanup = TRUE]

\* PauseBranch without the try/catch around stop() (part_002:230): on a
\* node that does not run the exception ends the branch at that call
PauseBranchNoCatch(r) ==
  IF r.sourceRef = DeadRef
    THEN r
    ELSE [StopSource(r, "pause") EXCEPT
            !.sourceRef = 0,
            !.pausedAtRef = IF ~r.isDragging THEN now - r.startTimeRef
                                             ELSE r.pausedAtRef,
            !.animationRef = NoFrame,
            !.hasCleanup = TRUE]

\* else { // Pause/Stop logic ... }
PauseBranch(r) ==
  [StopSource(r, "pause") EXCEPT
            !.sourceRef = 0,
            !.pausedAtRef = IF ~r.isDragging THEN now - r.startTimeRef
                                             ELSE r.pausedAtRef,
            !.animationRef = NoFrame,
            !.hasCleanup = TRUE]

\* useEffect(..., [isPlaying, buffer, context, onTogglePlay, isDragging])
PlaybackEffect(r) ==
  IF r.audioBuffer = 0 \/ ~r.audioContext THEN r
  ELSE IF r.isAudioPlaying THEN PlayBranch(r)
  ELSE PauseBranch(r)

AppState(r) == <<r.audioContext, r.audioBuffer, r.isAudioPlaying,
                 r.isAudioLoading, r.playingArticle>>

\* The render and effects that follow a task which took state o to r.
\* App re-renders when one of its state variables changed (or when forced);
\* every App render passes a new onTogglePlay function (App.tsx:522), so the
\* playback effect re-runs after every App render.
Commit(o, r, forced, newBuffer) ==
  LET app == forced \/ AppState(r) # AppState(o)
      runPlayback == app \/ r.isDragging # o.isDragging
      runDuration == newBuffer \/ r.audioBuffer # o.audioBuffer
      r1 == IF runPlayback THEN PlaybackCleanup(r) ELSE r
      r2 == IF runDuration THEN DurationEffect(r1) ELSE r1
      r3 == IF runPlayback THEN PlaybackEffect(r2) ELSE r2
  IN r3

BecomesState(r) ==
  /\ audioContext' = r.audioContext
  /\ audioBuffer' = r.audioBuffer
  /\ isAudioPlaying' = r.isAudioPlaying
  /\ isAudioLoading' = r.isAudioLoading
  /\ playingArticle' = r.playingArticle
  /\ pendingAudio' = r.pendingAudio
  /\ currentTime' = r.currentTime
  /\ duration' = r.duration
  /\ isDragging' = r.isDragging
  /\ sourceRef' = r.sourceRef
  /\ startTimeRef' = r.startTimeRef
  /\ pausedAtRef' = r.pausedAtRef
  /\ animationRef' = r.animationRef
  /\ hasCleanup' = r.hasCleanup
  /\ nodes' = r.nodes
  /\ endedQueue' = r.endedQueue
  /\ UNCHANGED briefingVars

\* a task of App or AudioPlayer: they run only while the root is mounted
Becomes(r) == mounted /\ BecomesState(r) /\ UNCHANGED <<now, mounted>>

RECURSIVE SumOver(_, _)
SumOver(f, S) ==
  IF S = {} THEN 0
  ELSE LET x == CHOOSE y \in S : TRUE IN f[x] + SumOver(f, S \ {x})

Queued(q) == SumOver(q, StopKinds \X Durations)

\* A task stops at most two nodes (handleSeekEnd, then the cleanup of the
\* effect re-run it causes) and starts a node only after stopping one.
NodesAvailable ==
  /\ Queued(endedQueue) + 2 <= MaxQueued
  /\ FreeIds(St) # {}

\* The player renders nothing when !buffer && !isLoading (part_002:296);
\* the play button and the range input are disabled while isLoading.
\* A disabled control gets no click, mouse or change event, but touch
\* events are still dispatched to it (onTouchStart, onTouchEnd).
PlayerShown == audioBuffer # 0 \/ isAudioLoading
ControlsEnabled == PlayerShown /\ ~isAudioLoading

\* ---------------------------------------------------------- briefing state
Dates == 1..NumDates
Users == 0..NumUsers
BriefingKeys == Users \X Dates

\* a call of fetchDailyBriefing that has not resolved, with the currentUser
\* and viewDate of the render whose loadBriefing ("briefing") or
\* loadMoreArticles ("more") made it
Fetch(kind, u, d) == [kind |-> kind, user |-> u, date |-> d]

\* App after its first render and effects: no stored session, yesterday's
\* briefing requested by the briefing effect and not in the cache
InitBriefing ==
  /\ viewDate = NumDates
  /\ currentUser = 0
  /\ articles = {}
  /\ loading = TRUE
  /\ loadingMore = FALSE
  /\ briefings = [k \in BriefingKeys |-> {}]
  /\ fetches = {Fetch("briefing", 0, NumDates)}

\* -------------------------------------------------------------------- Init
Init ==
  /\ audioContext = FALSE
  /\ audioBuffer = 0
  /\ isAudioPlaying = FALSE
  /\ isAudioLoading = FALSE
  /\ playingArticle = 0
  /\ pendingAudio = [a \in Articles |-> 0]
  /\ currentTime = 0
  /\ duration = 0
  /\ isDragging = FALSE
  /\ sourceRef = 0
  /\ startTimeRef = 0
  /\ pausedAtRef = 0
  /\ animationRef = NoFrame
  /\ hasCleanup = FALSE
  /\ nodes = [i \in NodeIds |-> FreeNode]
  /\ endedQueue = EmptyQueue
  /\ now = 0
  /\ mounted = TRUE
  /\ InitBriefing

\* ----------------------------------------------------------------- App.tsx
\* initAudio(), as called by handleExpand (App.tsx:240)
initAudio ==
  /\ ~audioContext
  /\ Becomes(Commit(St, [St EXCEPT !.audioContext = TRUE], FALSE, FALSE))

\* handlePlayAudio up to its first await.  The audioContext it tests is the
\* one of the render that created the handler, not the one initAudio() has
\* just created.
handlePlayAudio(a) ==
  LET r0 == [St EXCEPT !.audioContext = TRUE]
      toggle == playingArticle = a /\ audioBuffer # 0
      r1 == IF toggle
              THEN [r0 EXCEPT !.isAudioPlaying = ~isAudioPlaying]
              ELSE [r0 EXCEPT !.playingArticle = a,
                              !.isAudioLoading = audioContext,
                              !.isAudioPlaying = FALSE,
                              !.audioBuffer = 0,
                              !.pendingAudio[a] =
                                  IF audioContext THEN @ + 1 ELSE @]
  IN /\ NodesAvailable
     /\ toggle \/ ~audioContext \/ SumOver(pendingAudio, Articles) < MaxPendingAudio
     /\ Becomes(Commit(St, r1, FALSE, FALSE))

\* handlePlayAudio after generateNewsAudio has resolved, with a buffer (ok)
\* or with null.  A generated buffer is a new object: App renders again
\* even when the clip of the same article was already loaded.
handlePlayAudioDone(a, ok) ==
  LET r0 == [St EXCEPT !.pendingAudio[a] = @ - 1, !.isAudioLoading = FALSE]
      r1 == IF ok THEN [r0 EXCEPT !.audioBuffer = a, !.isAudioPlaying = TRUE]
                  ELSE r0
  IN /\ pendingAudio[a] > 0
     /\ NodesAvailable
     /\ Becomes(Commit(St, r1, ok, ok))

\* onTogglePlay={() => setIsAudioPlaying(!isAudioPlaying)}, from the button
onTogglePlay ==
  /\ ControlsEnabled
  /\ NodesAvailable
  /\ Becomes(Commit(St, [St EXCEPT !.isAudioPlaying = ~isAudioPlaying],
                    FALSE, FALSE))

\* onClose
onClose ==
  /\ PlayerShown
  /\ Becomes(Commit(St, [St EXCEPT !.isAudioPlaying = FALSE,
                                   !.audioBuffer = 0,
                                   !.playingArticle = 0], FALSE, FALSE))

\* Any other state change of App (chat, articles, modals, ...): App renders
\* again and hands AudioPlayer a new onTogglePlay.
parentRerender ==
  /\ NodesAvailable
  /\ Becomes(Commit(St, St, TRUE, FALSE))

\* ------------------------------------------------------------- AudioPlayer
\* <input type="range" min={0} max={duration || 100}>: the value the element
\* reports for a pointer position t
SliderMax(d) == IF d # 0 THEN d ELSE DefaultSliderMax

RangeValue(t, d) == Max(0, Min(t, SliderMax(d)))

\* pointer positions: from before the left end of the track to beyond the
\* right end of the longest clip
MaxDuration == CHOOSE d \in Durations : \A e \in Durations : e <= d

SeekTargets == (0 - SeekOvershoot)..(MaxDuration + SeekOvershoot)

\* onMouseDown / onTouchStart
handleSeekStart ==
  /\ PlayerShown
  /\ NodesAvailable
  /\ Becomes(Commit(St, [St EXCEPT !.isDragging = TRUE], FALSE, FALSE))

\* onChange
handleSeekChange(t) ==
  /\ ControlsEnabled
  /\ Becomes(Commit(St, [St EXCEPT !.currentTime = RangeValue(t, duration)],
                    FALSE, FALSE))

\* SeekCommit without the sourceRef.current.stop() of part_002:267
SeekCommitNoStop(r) ==
  LET r1 == [r EXCEPT !.pausedAtRef = r.currentTime]
      r2 == IF r1.isAudioPlaying /\ r1.sourceRef # 0
              THEN LET id == NewId(r1)
                   IN [r1 EXCEPT
                         !.nodes = StartNode(r1, id, r1.pausedAtRef),
                         !.sourceRef = id,
                         !.startTimeRef = now - r1.pausedAtRef]
              ELSE r1
  IN [r2 EXCEPT !.isDragging = FALSE]

\* the body of handleSeekEnd after its guard
SeekCommit(r) ==
  LET r1 == [r EXCEPT !.pausedAtRef = r.currentTime]
      r2 == IF r1.isAudioPlaying /\ r1.sourceRef # 0
              THEN LET stopped == StopSource(r1, "seek")
                       id == NewId(stopped)
                   IN [stopped EXCEPT
                         !.nodes = StartNode(stopped, id, r1.pausedAtRef),
                         !.sourceRef = id,
                         !.startTimeRef = now - r1.pausedAtRef]
              ELSE r1
  IN [r2 EXCEPT !.isDragging = FALSE]

\* the state handleSeekEnd and the render after it lead to
AfterSeekEnd ==
  Commit(St, IF audioBuffer = 0 \/ ~audioContext
               THEN St ELSE SeekCommit(St), FALSE, FALSE)

\* onMouseUp / onTouchEnd
handleSeekEnd ==
  /\ PlayerShown
  /\ NodesAvailable
  /\ Becomes(AfterSeekEnd)

\* updateProgress, run by requestAnimationFrame.  isDragging, isPlaying and
\* buffer are those of the effect run that defined it; isPlaying is true
\* there, so it always schedules itself again.
updateProgress ==
  /\ animationRef.pending
  /\ Becomes(Commit(St, IF ~animationRef.drag
                          THEN [St EXCEPT !.currentTime =
                                  Min(now - startTimeRef, animationRef.dur)]
                          ELSE St, FALSE, FALSE))

\* The clock reading at which node n has played its buffer to the end.
EndsAt(n) == n.startedAt + n.dur - Min(n.offset, n.dur)

\* OnEndedBody with the comparison against buffer.duration, the 0.1 s
\* epsilon left out (part_002:208)
OnEndedBodyNoEpsilon(r, n) ==
  IF now - r.startTimeRef >= n.dur
    THEN [r EXCEPT !.isAudioPlaying = ~n.sawPlaying,
                   !.pausedAtRef = 0,
                   !.currentTime = 0]
    ELSE r

\* source.onended: the ended event of node id is dispatched, because the
\* node was stopped or because it played to the end of the buffer.
OnEndedBody(r, n) ==
  IF now - r.startTimeRef >= n.dur - EndEpsilon
    THEN [r EXCEPT !.isAudioPlaying = ~n.sawPlaying,
                   !.pausedAtRef = 0,
                   !.currentTime = 0]
    ELSE r

\* a running node has played its buffer to the end
onendedNatural(id) ==
  LET n == nodes[id]
      r0 == [St EXCEPT !.nodes[id] = FreeNode,
                       !.sourceRef = IF @ = id THEN DeadRef ELSE @]
  IN /\ n.live
     /\ now >= EndsAt(n)
     /\ Becomes(Commit(St, OnEndedBody(r0, n), FALSE, FALSE))

\* The node had been stopped by the stop() call k.  Nodes are only created
\* in renders with isPlaying true (part_002:192, :266), so the onTogglePlay
\* its closure holds saw isAudioPlaying true.
onendedStopped(k) ==
  LET n == [FreeNode EXCEPT !.dur = k[2], !.sawPlaying = TRUE]
      r0 == [St EXCEPT !.endedQueue[k] = @ - 1]
  IN /\ endedQueue[k] > 0
     /\ Becomes(Commit(St, OnEndedBody(r0, n), FALSE, FALSE))

\* context.currentTime advances
clockTick ==
  /\ audioContext
  /\ now < MaxClock
  /\ now' = now + 1
  /\ UNCHANGED <<audioContext, audioBuffer, isAudioPlaying, isAudioLoading,
                 playingArticle, pendingAudio, currentTime, duration,
                 isDragging, sourceRef, startTimeRef, pausedAtRef,
                 animationRef, hasCleanup, nodes, endedQueue, mounted>>
  /\ UNCHANGED briefingVars

Next ==
  \/ initAudio
  \/ \E a \in Articles : handlePlayAudio(a)
  \/ \E a \in Articles, ok \in BOOLEAN : handlePlayAudioDone(a, ok)
  \/ onTogglePlay
  \/ onClose
  \/ parentRerender
  \/ handleSeekStart
  \/ \E t \in SeekTargets : handleSeekChange(t)
  \/ handleSeekEnd
  \/ updateProgress
  \/ \E id \in NodeIds : onendedNatural(id)
  \/ \E k \in StopKinds \X Durations : onendedStopped(k)
  \/ clockTick

Spec == Init /\ [][Next]_vars

\* ------------------------------------------------------------ observations
LiveNodes == {i \in NodeIds : nodes[i].live}

\* the engine is Playing: isPlaying with a buffer and a context
Playing == isAudioPlaying /\ audioBuffer # 0 /\ audioContext

\* not playing, with a clip loaded (Ready, Paused or Ended)
NotPlaying == ~isAudioPlaying /\ audioBuffer # 0 /\ audioContext

TypeOK ==
  /\ audioContext \in BOOLEAN /\ isAudioPlaying \in BOOLEAN
  /\ isAudioLoading \in BOOLEAN /\ isDragging \in BOOLEAN
  /\ audioBuffer \in 0..NumArticles /\ playingArticle \in 0..NumArticles
  /\ sourceRef \in {DeadRef, 0} \cup NodeIds
  /\ now \in 0..MaxClock /\ mounted \in BOOLEAN
  /\ pausedAtRef \in Int /\ startTimeRef \in Int /\ currentTime \in Int
  /\ viewDate \in Dates /\ currentUser \in Users
  /\ loading \in BOOLEAN /\ loadingMore \in BOOLEAN
  /\ articles \subseteq BriefingKeys
  /\ briefings \in [BriefingKeys -> SUBSET BriefingKeys]
  /\ Cardinality(fetches) <= MaxFetches

\* ------------------------------------------------------- device failures
\* The play branch of the playback effect has no try/catch around
\* context.createBufferSource() (part_002:194) or source.start (:201).
\* What the branch has done when the call at `at` throws: nothing, or
\* sourceRef.current = source (:197) with a node that never started.
ThrowSites == {"create", "start"}

PlayBranchThrows(r, at) ==
  IF at = "create" THEN r ELSE [r EXCEPT !.sourceRef = DeadRef]

\* Commit of a task that changed App state, with the play branch throwing
CommitThrows(o, r, newBuffer, at) ==
  LET runDuration == newBuffer \/ r.audioBuffer # o.audioBuffer
      r1 == PlaybackCleanup(r)
      r2 == IF runDuration THEN DurationEffect(r1) ELSE r1
  IN PlayBranchThrows(r2, at)

\* The exception leaves the effect; App has no error boundary, so React
\* unmounts the root.  The effect that threw returned no cleanup.
Crashes(r) == BecomesState(r) /\ mounted' = FALSE /\ UNCHANGED now

\* the play button while not playing, with the audio device failing
onTogglePlayThrows(at) ==
  /\ mounted
  /\ ControlsEnabled
  /\ NotPlaying
  /\ Crashes(CommitThrows(St, [St EXCEPT !.isAudioPlaying = TRUE],
                          FALSE, at))

\* the generated clip arrives and is played, with the audio device failing
handlePlayAudioDoneThrows(a, at) ==
  LET r1 == [St EXCEPT !.pendingAudio[a] = @ - 1, !.isAudioLoading = FALSE,
                       !.audioBuffer = a, !.isAudioPlaying = TRUE]
  IN /\ mounted
     /\ pendingAudio[a] > 0
     /\ Crashes(CommitThrows(St, r1, TRUE, at))

NextDevice ==
  \/ Next
  \/ \E at \in ThrowSites : onTogglePlayThrows(at)
  \/ \E a \in Articles, at \in ThrowSites : handlePlayAudioDoneThrows(a, at)

SpecDevice == Init /\ [][NextDevice]_vars

\* -------------------------------------------------- overlapping requests
\* Spec follows the clips of Articles with at most MaxPendingAudio
\* generations in flight.  SpecOverlap adds one more article and play
\* requests issued from a card while that many generations are already in
\* flight (the cards' buttons are never disabled, part_002:62-76).
OtherArticle == NumArticles + 1
AllArticles == Articles \cup {OtherArticle}

InitOverlap ==
  /\ audioContext = FALSE
  /\ audioBuffer = 0
  /\ isAudioPlaying = FALSE
  /\ isAudioLoading = FALSE
  /\ playingArticle = 0
  /\ pendingAudio = [a \in AllArticles |-> 0]
  /\ currentTime = 0
  /\ duration = 0
  /\ isDragging = FALSE
  /\ sourceRef = 0
  /\ startTimeRef = 0
  /\ pausedAtRef = 0
  /\ animationRef = NoFrame
  /\ hasCleanup = FALSE
  /\ nodes = [i \in NodeIds |-> FreeNode]
  /\ endedQueue = EmptyQueue
  /\ now = 0
  /\ mounted = TRUE
  /\ InitBriefing

\* handlePlayAudio up to its first await, called while MaxPendingAudio
\* generations are in flight (so the context exists) and not as a toggle
handlePlayAudioOverlap(a) ==
  LET r1 == [St EXCEPT !.playingArticle = a,
                       !.isAudioLoading = TRUE,
                       !.isAudioPlaying = FALSE,
                       !.audioBuffer = 0,
                       !.pendingAudio[a] = @ + 1]
  IN /\ audioContext
     /\ ~(playingArticle = a /\ audioBuffer # 0)
     /\ SumOver(pendingAudio, AllArticles) = MaxPendingAudio
     /\ NodesAvailable
     /\ Becomes(Commit(St, r1, FALSE, FALSE))

NextOverlap ==
  \/ Next
  \/ \E a \in AllArticles : handlePlayAudioOverlap(a)
  \/ \E ok \in BOOLEAN : handlePlayAudioDone(OtherArticle, ok)

SpecOverlap == InitOverlap /\ [][NextOverlap]_vars

\* ---------------------------------------------------------------- briefing
\* loadBriefing(forceRefresh) up to its await, in a render with user u and
\* date d (App.tsx:139-158)
loadBriefing(u, d, forceRefresh) ==
  IF ~forceRefresh /\ briefings[<<u, d>>] # {}
    THEN /\ articles' = briefings[<<u, d>>]
         /\ loading' = FALSE
         /\ fetches' = fetches
    ELSE /\ Cardinality(fetches) < MaxFetches
         /\ articles' = {}
         /\ loading' = TRUE
         /\ fetches' = fetches \cup {Fetch("briefing", u, d)}

\* handlePrevDay and the briefing effect of the render it causes
handlePrevDay ==
  /\ viewDate > 1
  /\ viewDate' = viewDate - 1
  /\ loadBriefing(currentUser, viewDate - 1, FALSE)
  /\ UNCHANGED <<currentUser, loadingMore, briefings>>
  /\ UNCHANGED audioVars

\* handleNextDay (disabled beyond yesterday) and the briefing effect
handleNextDay ==
  /\ viewDate < NumDates
  /\ viewDate' = viewDate + 1
  /\ loadBriefing(currentUser, viewDate + 1, FALSE)
  /\ UNCHANGED <<currentUser, loadingMore, briefings>>
  /\ UNCHANGED audioVars

\* handleLoginSuccess(user), for a user whose onboarding is complete, and
\* the briefing effect
handleLoginSuccess(u) ==
  /\ currentUser = 0
  /\ currentUser' = u
  /\ loadBriefing(u, viewDate, FALSE)
  /\ UNCHANGED <<viewDate, loadingMore, briefings>>
  /\ UNCHANGED audioVars

\* handleLogout and the briefing effect
handleLogout ==
  /\ currentUser # 0
  /\ currentUser' = 0
  /\ loadBriefing(0, viewDate, FALSE)
  /\ UNCHANGED <<viewDate, loadingMore, briefings>>
  /\ UNCHANGED audioVars

\* the refresh button: loadBriefing(true), disabled while loading
refreshBriefing ==
  /\ ~loading
  /\ loadBriefing(currentUser, viewDate, TRUE)
  /\ UNCHANGED <<viewDate, currentUser, loadingMore, briefings>>
  /\ UNCHANGED audioVars

\* loadBriefing after its fetch f has resolved, with articles (ok) or with
\* an empty list (App.tsx:160-169)
loadBriefingDone(f, ok) ==
  /\ f \in fetches /\ f.kind = "briefing"
  /\ fetches' = fetches \ {f}
  /\ IF ok
       THEN /\ briefings' = [briefings EXCEPT ![<<f.user, f.date>>] =
                                                 {<<f.user, f.date>>}]
            /\ articles' = {<<f.user, f.date>>}
       ELSE /\ articles' = {}
            /\ UNCHANGED briefings
  /\ loading' = FALSE
  /\ UNCHANGED <<viewDate, currentUser, loadingMore>>
  /\ UNCHANGED audioVars

\* loadMoreArticles up to its await, called by the IntersectionObserver
\* (App.tsx:85-99, 172-180)
loadMoreArticles ==
  /\ ~loading /\ articles # {} /\ ~loadingMore
  /\ Cardinality(fetches) < MaxFetches
  /\ loadingMore' = TRUE
  /\ fetches' = fetches \cup {Fetch("more", currentUser, viewDate)}
  /\ UNCHANGED <<viewDate, currentUser, articles, loading, briefings>>
  /\ UNCHANGED audioVars

\* loadMoreArticles after its fetch f has resolved (App.tsx:182-194): the
\* updater appends to the list shown now and saves the result under the
\* key of the render that started the fetch
loadMoreDone(f, ok) ==
  /\ f \in fetches /\ f.kind = "more"
  /\ fetches' = fetches \ {f}
  /\ IF ok
       THEN /\ articles' = articles \cup {<<f.user, f.date>>}
            /\ briefings' = [briefings EXCEPT ![<<f.user, f.date>>] =
                                articles \cup {<<f.user, f.date>>}]
       ELSE UNCHANGED <<articles, briefings>>
  /\ loadingMore' = FALSE
  /\ UNCHANGED <<viewDate, currentUser, loading>>
  /\ UNCHANGED audioVars

AllFetches ==
  {Fetch(k, u, d) : k \in {"briefing", "more"}, u \in Users, d \in Dates}

NextBriefing ==
  \/ handlePrevDay
  \/ handleNextDay
  \/ \E u \in Users \ {0} : handleLoginSuccess(u)
  \/ handleLogout
  \/ refreshBriefing
  \/ \E f \in AllFetches, ok \in BOOLEAN : loadBriefingDone(f, ok)
  \/ loadMoreArticles
  \/ \E f \in AllFetches, ok \in BOOLEAN : loadMoreDone(f, ok)

SpecBriefing == Init /\ [][NextBriefing]_vars

\* ------------------------------------------------------------------ claims

\* C1: in every reachable state a running source node exists if and only if
\* the engine is Playing (isPlaying with a buffer and a context).
C1_EmitterIffPlaying == (LiveNodes # {}) <=> Playing

\* C1 witness: Playing with a running node, after a seek commit replaced the
\* node that was running (its ended event is still queued).
C1_Witness ==
  /\ Playing
  /\ LiveNodes # {}
  /\ \E d \in Durations : endedQueue[<<"seek", d>>] > 0

\* C2: after every transition the offset pausedAtRef lies within
\* [0, duration of the loaded clip].
C2_OffsetInRange ==
  audioBuffer # 0 => (0 <= pausedAtRef /\ pausedAtRef <= Duration(audioBuffer))

\* C3: at most one source node runs at any instant, and a running node is
\* always the one sourceRef refers to, so that it can still be stopped.
C3_OneEmitter ==
  /\ Cardinality(LiveNodes) <= 1
  /\ \A i \in LiveNodes : sourceRef = i

\* C3 witness: handleSeekEnd has replaced a running node while Playing and
\* the effect re-run that follows has replaced it again: one node runs, the
\* two it replaced are stopped.
C3_Witness ==
  /\ Playing
  /\ Cardinality(LiveNodes) = 1
  /\ \E d \in Durations :
       endedQueue[<<"seek", d>>] > 0 /\ endedQueue[<<"cleanup", d>>] > 0

\* C4: the ended event of a node that a seek commit replaced, dispatched
\* while Playing, does not end playback and resets neither the offset nor
\* the reported position.
C4_StaleCompletionIgnored ==
  [][\A d \in Durations :
       (onendedStopped(<<"seek", d>>) /\ Playing)
         => (isAudioPlaying' /\ pausedAtRef' = pausedAtRef
                             /\ currentTime' = currentTime)]_vars

\* C5: when the active node plays to its end while Playing, the engine ends
\* up not playing with offset 0, no running node and no pending animation
\* frame, the playback effect of the resulting render included.
C5_NaturalCompletion ==
  [][\A id \in NodeIds :
       (onendedNatural(id) /\ Playing /\ sourceRef = id)
         => (~isAudioPlaying' /\ pausedAtRef' = 0 /\ LiveNodes' = {}
                              /\ ~animationRef'.pending)]_vars

\* C6: pausing while Playing with no scrub in progress sets the offset to
\* the offset the running node was started at plus the clock time elapsed
\* since it was started, stops the node and leaves the engine not playing.
C6_PauseSavesPosition ==
  [][(/\ Playing /\ ~isDragging /\ sourceRef \in LiveNodes
      /\ onTogglePlay \/ \E a \in Articles : handlePlayAudio(a)
      /\ audioBuffer' = audioBuffer)
       => (/\ pausedAtRef' = nodes[sourceRef].offset
                               + (now - nodes[sourceRef].startedAt)
           /\ LiveNodes' = {}
           /\ NotPlaying')]_vars

\* C6 witness: paused one time unit after a resume from offset 1: the offset
\* is 2, the clock-derived position, nothing runs and the node this pause
\* stopped has its ended event queued.
C6_Witness ==
  /\ NotPlaying /\ ~isDragging
  /\ sourceRef = 0 /\ LiveNodes = {}
  /\ pausedAtRef = 2 /\ now - startTimeRef = 2 /\ now > 2
  /\ \E d \in Durations : endedQueue[<<"cleanup", d>>] > 0

\* C7: the offset recorded at a pause is the offset the next play() starts
\* its node at, however much clock time passes and however often the parent
\* re-renders in between.
C7_RoundTrip ==
  [][(NotPlaying /\ ~isDragging)
       => (/\ (clockTick \/ parentRerender) => pausedAtRef' = pausedAtRef
           /\ onTogglePlay
                => \A i \in LiveNodes' : nodes'[i].offset = pausedAtRef)]_vars

\* C8: a second run of the not-playing branch of the playback effect while
\* already paused leaves the playing state, the node slot and the offset as
\* the first run left them.
C8_PauseIdempotent ==
  [][(NotPlaying /\ hasCleanup /\ sourceRef = 0 /\ parentRerender)
       => (/\ pausedAtRef' = pausedAtRef
           /\ isAudioPlaying' = isAudioPlaying
           /\ sourceRef' = sourceRef
           /\ LiveNodes' = LiveNodes)]_vars

\* C9: a scrub committed while not playing leaves offset equal to the scrub
\* target (the currentTime handleSeekChange set), the engine not playing
\* and no node running.
C9_SeekWhileNotPlaying ==
  [][(handleSeekEnd /\ NotPlaying /\ isDragging)
       => (/\ pausedAtRef' = currentTime
           /\ ~isAudioPlaying'
           /\ LiveNodes' = {})]_vars

\* C10: a seek to a target t outside [0, duration] commits the offset
\* clamp(t, 0, duration): the range input reports the clamped value and the
\* commit makes that value the offset.
C10_SeekClamped ==
  [][audioBuffer # 0
       => (/\ \A t \in SeekTargets :
                handleSeekChange(t)
                  => currentTime' = Max(0, Min(t, Duration(audioBuffer)))
           /\ (handleSeekEnd /\ currentTime \in {0, Duration(audioBuffer)})
                => pausedAtRef' = currentTime)]_vars

\* C11: when createBufferSource() or start() throws during play(), the
\* engine stays as it was before the play(): still mounted, not playing, no
\* node recorded in sourceRef, offset and segment start time unchanged.
C11_DeviceErrorLeavesState ==
  [][\A at \in ThrowSites :
       (onTogglePlayThrows(at)
          \/ \E a \in Articles : handlePlayAudioDoneThrows(a, at))
         => (/\ mounted'
             /\ ~isAudioPlaying'
             /\ sourceRef' \in {0, sourceRef}
             /\ pausedAtRef' = pausedAtRef
             /\ startTimeRef' = startTimeRef)]_vars

\* C12: with no clip loaded, pause, the three seek handlers and close leave
\* the offset, the segment start time, sourceRef, isDragging and the
\* playing state as they were.
C12_IdleNoOps ==
  [][(/\ audioBuffer = 0
      /\ \/ onTogglePlay
         \/ handleSeekStart
         \/ \E t \in SeekTargets : handleSeekChange(t)
         \/ handleSeekEnd
         \/ onClose)
       => UNCHANGED <<pausedAtRef, startTimeRef, sourceRef, isDragging,
                      isAudioPlaying>>]_vars

\* C13: closing the player, or replacing the clip through handlePlayAudio,
\* leaves the engine idle: no node runs, no clip is loaded, the engine is
\* not playing, and the offset and the reported position are 0.
C13_StopLeavesIdle ==
  [][(\/ onClose
      \/ \E a \in Articles :
           handlePlayAudio(a) /\ ~(playingArticle = a /\ audioBuffer # 0))
       => (/\ LiveNodes' = {}
           /\ audioBuffer' = 0
           /\ ~isAudioPlaying'
           /\ pausedAtRef' = 0
           /\ currentTime' = 0)]_vars

\* C13 witness: the player was closed while a node was running some way
\* into the clip: the node was stopped by the effect cleanup, the clip is
\* gone and the offset and the position are 0.
C13_Witness ==
  /\ audioBuffer = 0 /\ ~isAudioLoading /\ ~isAudioPlaying
  /\ LiveNodes = {}
  /\ \E d \in Durations : endedQueue[<<"cleanup", d>>] > 0
  /\ now - startTimeRef > 0
  /\ pausedAtRef = 0 /\ currentTime = 0

\* C14: a tick of the progress tracker while Playing with no scrub in
\* progress reports min(now - startTimeRef, duration), where startTimeRef is
\* the clock at the start of the running node minus its start offset; the
\* reported position is at most the duration and at least that offset.
C14_TickReportsPosition ==
  [][(updateProgress /\ Playing /\ ~isDragging /\ sourceRef \in LiveNodes)
       => (/\ startTimeRef = nodes[sourceRef].startedAt
                                - nodes[sourceRef].offset
           /\ currentTime' = Min(now - startTimeRef, Duration(audioBuffer))
           /\ currentTime' <= Duration(audioBuffer)
           /\ currentTime' >= nodes[sourceRef].offset)]_vars

\* C15: while a scrub is in progress on a loaded clip (isDragging from
\* handleSeekStart until handleSeekEnd), the reported position currentTime
\* changes only in handleSeekChange, to the value of the range input; no
\* tick and no ended event overwrites it.
C15_ScrubPositionKept ==
  [][(isDragging /\ isDragging' /\ audioBuffer # 0
                 /\ audioBuffer' = audioBuffer)
       => (\/ currentTime' = currentTime
           \/ \E t \in SeekTargets : handleSeekChange(t))]_vars

\* C16: a seek commit while Playing, to the position t the scrub left in
\* currentTime, keeps the engine Playing.  The handler stops the node that
\* was running and starts exactly one node at offset t with startTimeRef
\* such that now - startTimeRef = t; after the effect re-run that clearing
\* isDragging causes, exactly one node runs, it is the one in sourceRef, it
\* plays from t as of the commit, and the replaced node no longer runs.
C16_SeekCommitWhilePlaying ==
  [][(handleSeekEnd /\ Playing)
       => LET h == SeekCommit(St)
              live == {i \in NodeIds : h.nodes[i].live}
          IN /\ live = {h.sourceRef}
             /\ h.nodes[h.sourceRef].offset = currentTime
             /\ now - h.startTimeRef = currentTime
             /\ sourceRef \in LiveNodes => h.endedQueue # endedQueue
             /\ Playing'
             /\ LiveNodes' = {sourceRef'}
             /\ nodes'[sourceRef'].offset = currentTime
             /\ nodes'[sourceRef'].startedAt = now
             /\ now - startTimeRef' = currentTime
             /\ pausedAtRef' = currentTime
             /\ ~isDragging']_vars

\* C16 witness: just after a scrub to position 2 was committed while
\* Playing at a later clock reading: one node runs from offset 2, started
\* now, and the node the handler stopped has its ended event queued.
C16_Witness ==
  /\ Playing /\ ~isDragging
  /\ sourceRef \in LiveNodes /\ Cardinality(LiveNodes) = 1
  /\ nodes[sourceRef].offset = 2 /\ nodes[sourceRef].startedAt = now
  /\ pausedAtRef = 2 /\ currentTime = 2 /\ now = 1
  /\ \E d \in Durations : endedQueue[<<"seek", d>>] > 0

\* C17: the ended event of a node that a pause or a stop has stopped
\* (through the effect cleanup or the not-playing branch), dispatched while
\* the engine is not playing, changes neither the playing state nor the
\* offset nor the reported position.
C17_EndedAfterPauseIgnored ==
  [][\A d \in Durations :
       (/\ ~isAudioPlaying
        /\ onendedStopped(<<"cleanup", d>>) \/ onendedStopped(<<"pause", d>>))
         => UNCHANGED <<isAudioPlaying, pausedAtRef, currentTime>>]_vars

\* C18: a re-run of the playback effect while the engine stays Playing (a
\* parent re-render, or a change of isDragging by handleSeekStart) neither
\* stops nor restarts the running node and leaves startTimeRef and the
\* audible position (the node's start offset and start clock) unchanged.
C18_PlayWhilePlayingNoOp ==
  [][(/\ Playing /\ sourceRef \in LiveNodes
      /\ parentRerender \/ handleSeekStart)
       => (/\ nodes' = nodes
           /\ sourceRef' = sourceRef
           /\ endedQueue' = endedQueue
           /\ startTimeRef' = startTimeRef)]_vars

\* C19: handleSeekStart while Playing only sets isDragging: the node in
\* sourceRef keeps running from the position it had reached, and the offset
\* and startTimeRef keep their values.
C19_SeekStartOnlySuspends ==
  [][(handleSeekStart /\ Playing /\ ~isDragging /\ sourceRef \in LiveNodes)
       => (/\ isDragging'
           /\ sourceRef' \in LiveNodes'
           /\ nodes'[sourceRef'].startedAt - nodes'[sourceRef'].offset
                 = nodes[sourceRef].startedAt - nodes[sourceRef].offset
           /\ Queued(endedQueue') = Queued(endedQueue)
           /\ pausedAtRef' = pausedAtRef
           /\ startTimeRef' = startTimeRef)]_vars

\* The state the play button leads to from the current state.
AfterPlay == Commit(St, [St EXCEPT !.isAudioPlaying = TRUE], FALSE, FALSE)

\* C20: when the active node has played to its end while Playing, the
\* engine is not playing, and play() from that state starts a node at
\* offset 0 that will reach the end of the clip a full duration later.
C20_ReplayFromStart ==
  [][\A id \in NodeIds :
       (onendedNatural(id) /\ Playing /\ sourceRef = id)
         => (/\ NotPlaying
             /\ AfterPlay.sourceRef \in NodeIds
             /\ AfterPlay.nodes[AfterPlay.sourceRef].offset = 0
             /\ EndsAt(AfterPlay.nodes[AfterPlay.sourceRef])
                   = now + Duration(audioBuffer))']_vars

\* C21: when a generated clip becomes the buffer of the player, also when
\* it replaces a loaded clip directly, the node started for it starts at
\* offset 0.
C21_LoadStartsAtZero ==
  [][\A a \in AllArticles :
       handlePlayAudioDone(a, TRUE)
         => (/\ sourceRef' \in LiveNodes'
             /\ nodes'[sourceRef'].offset = 0)]_vars

C23_SeekToEnd ==
  [][(/\ handleSeekEnd /\ audioBuffer # 0 /\ audioContext
      /\ currentTime >= Duration(audioBuffer))
       => (/\ pausedAtRef' = Duration(audioBuffer)
           /\ LiveNodes' = {})]_vars

C25_TeardownBestEffort ==
  [][/\ \A id \in NodeIds :
          (onendedNatural(id) /\ Playing /\ sourceRef = id)
            => (/\ ~animationRef'.pending
                /\ sourceRef' = 0
                /\ ~isDragging => pausedAtRef' = now - startTimeRef)
     /\ (handleSeekEnd /\ Playing)
          => LET h == SeekCommit([St EXCEPT !.sourceRef = DeadRef])
             IN /\ h.sourceRef \in NodeIds
                /\ h.nodes[h.sourceRef].live
                /\ h.nodes[h.sourceRef].offset = currentTime]_vars

\* C25 witness: a clip played from offset 0 to its end; no stop() ever hit
\* a running node (no ended event is queued), the frame is cancelled,
\* sourceRef is cleared and the offset was saved by the not-playing branch.
C25_Witness ==
  /\ NotPlaying /\ ~isDragging
  /\ sourceRef = 0 /\ LiveNodes = {}
  /\ ~animationRef.pending
  /\ Queued(endedQueue) = 0
  /\ startTimeRef = 0 /\ now = Duration(audioBuffer)
  /\ pausedAtRef = now - startTimeRef
  /\ currentTime = 0

\* C26: with play requests for different articles overlapping, a loaded
\* buffer is always the clip generated for the current playingArticle.
C26_BufferOfPlayingArticle ==
  (audioBuffer # 0 /\ playingArticle # 0) => audioBuffer = playingArticle

\* C27: a generation that completes after the player was closed
\* (playingArticle is null) loads no buffer and starts no playback.
C27_ClosedStaysIdle ==
  [][\A a \in Articles :
       (handlePlayAudioDone(a, TRUE) /\ playingArticle = 0)
         => (/\ audioBuffer' = 0
             /\ ~isAudioPlaying'
             /\ LiveNodes' = {})]_vars

\* C28: in every state in which the seek bar can be released, handleSeekEnd
\* leaves isDragging false, also when the clip or the context is gone.
C28_SeekEndClearsDragging ==
  (PlayerShown /\ NodesAvailable) => ~AfterSeekEnd.isDragging

\* C29: once loading is false, every article in the list shown was fetched
\* (or read from the cache) for the viewDate that is selected.
C29_ListOfViewDate ==
  ~loading => \A t \in articles : t[2] = viewDate

\* C30: the cache entry stored under <<user, date>> holds only articles
\* that were fetched for that user and that date.
C30_CacheKeyMatches ==
  \A k \in BriefingKeys : briefings[k] \subseteq {k}

====
